---------------------------- MODULE Spec2Model ----------------------------
(***************************************************************************)
(* A model of NSudoSDK/M2Win32Helpers.cpp: M2LoadResource,                 *)
(* M2GetFileAttributes, M2SetFileAttributes, M2DeleteFile,                 *)
(* M2GetFileAllocationSize and M2GetFileSize, running against one file of  *)
(* a file system and one resource module.                                 *)
(*                                                                         *)
(* A DWORD is modelled as the set of its set bit positions (0..31), so     *)
(* that & is \cap, | is \cup and -1 is 0..31; the 32-bit value 0xFFFFFFFF  *)
(* does not fit the model checker's integers.  An HRESULT is its signed    *)
(* 32-bit value.                                                           *)
(***************************************************************************)
EXTENDS Integers, Sequences, FiniteSets, TLC

(***************************************************************************)
(* Bounds of the model.                                                    *)
(***************************************************************************)
NumThreads == 2
MaxCalls == 2
MaxFileSize == 2
ClusterSize == 2
MaxResourceSize == 2

Thread == 1..NumThreads

(***************************************************************************)
(* DWORD bit masks.                                                        *)
(***************************************************************************)
DwordBits == 0..31

\* The set bits of a non-negative number below 2^31.
Bits(n) == {i \in 0..30 : (n \div (2 ^ i)) % 2 = 1}

FILE_SHARE_READ == Bits(1)
FILE_SHARE_WRITE == Bits(2)
FILE_SHARE_DELETE == Bits(4)
FILE_ATTRIBUTE_READONLY == Bits(1)
FILE_ATTRIBUTE_HIDDEN == Bits(2)
FILE_ATTRIBUTE_SYSTEM == Bits(4)
FILE_ATTRIBUTE_DIRECTORY == Bits(16)
FILE_ATTRIBUTE_ARCHIVE == Bits(32)
FILE_ATTRIBUTE_NORMAL == Bits(128)
FILE_ATTRIBUTE_TEMPORARY == Bits(256)
FILE_ATTRIBUTE_COMPRESSED == Bits(2048)
FILE_ATTRIBUTE_OFFLINE == Bits(4096)
FILE_ATTRIBUTE_NOT_CONTENT_INDEXED == Bits(8192)
FILE_ATTRIBUTE_NO_SCRUB_DATA == Bits(131072)

\* (DWORD)-1
INVALID_FILE_ATTRIBUTES == DwordBits

\* The bit masks M2SetFileAttributes is called with: none, every single bit,
\* all bits, and a combination.
AttributeInputs ==
    {{i} : i \in DwordBits} \cup {{}, INVALID_FILE_ATTRIBUTES} \cup
    {FILE_ATTRIBUTE_READONLY \cup FILE_ATTRIBUTE_SYSTEM \cup
     FILE_ATTRIBUTE_DIRECTORY \cup FILE_ATTRIBUTE_COMPRESSED}

(***************************************************************************)
(* Result codes.                                                           *)
(***************************************************************************)
ERROR_SUCCESS == 0
ERROR_FILE_NOT_FOUND == 2
ERROR_ACCESS_DENIED == 5
ERROR_INVALID_HANDLE == 6
ERROR_SHARING_VIOLATION == 32
ERROR_DIR_NOT_EMPTY == 145
ERROR_RESOURCE_DATA_NOT_FOUND == 1812
ERROR_RESOURCE_NAME_NOT_FOUND == 1814

S_OK == 0
E_INVALIDARG == -2147024809

\* __HRESULT_FROM_WIN32(x): x <= 0 ? x : (x & 0xFFFF) | 0x80070000
HRESULT_FROM_WIN32(x) == IF x <= 0 THEN x ELSE (x % 65536) - 2147024896

SUCCEEDED(hr) == hr >= 0

\* M2GetLastError(): the calling thread's last-error code as an HRESULT.
M2GetLastError(lastError) == HRESULT_FROM_WIN32(lastError)


(***************************************************************************)
(* State.                                                                  *)
(*   fs       the file the path names: exists, attr (its attribute DWORD), *)
(*            deletePending (the delete-on-close disposition), size        *)
(*   handles  the threads that hold an open handle to the file             *)
(*   local    per thread: the running call's position (pc), its arguments  *)
(*            and local variables under the source's names, the thread's   *)
(*            last-error code, and a record of what the call did (events,  *)
(*            attr0/existed0: the file as it was when the call began,      *)
(*            blocked: the environment's answer to the disposition call,   *)
(*            dispositionError: the error that call ended with; both -1    *)
(*            before it)                                                   *)
(*   callsLeft  per thread, the calls it will still make                   *)
(***************************************************************************)
VARIABLES fs, handles, local, callsLeft

vars == <<fs, handles, local, callsLeft>>

NoFile == [exists |-> FALSE, attr |-> {}, deletePending |-> FALSE, size |-> 0]

\* One thing a call did: an OS call with its input, what it applied and
\* whether it succeeded.
Ev(e, in, arg, ok) == [e |-> e, in |-> in, arg |-> arg, ok |-> ok]

IdleLocal ==
    [pc |-> "idle", op |-> "none", bForceDeleteReadOnlyFile |-> FALSE,
     hFile |-> "none", hr |-> S_OK, OldAttribute |-> {},
     lastError |-> ERROR_SUCCESS, out |-> 0,
     lpResourceInfo |-> "none", Size |-> 0, Pointer |-> "nullptr",
     attr0 |-> {}, existed0 |-> FALSE, blocked |-> -1, dispositionError |-> -1,
     events |-> <<>>]

\* The attribute sets a file can carry: FILE_ATTRIBUTE_NORMAL only alone.
InitialAttributes ==
    {IF a = {} THEN FILE_ATTRIBUTE_NORMAL ELSE a :
        a \in SUBSET (FILE_ATTRIBUTE_READONLY \cup FILE_ATTRIBUTE_HIDDEN \cup
                      FILE_ATTRIBUTE_SYSTEM \cup FILE_ATTRIBUTE_ARCHIVE \cup
                      FILE_ATTRIBUTE_COMPRESSED)}

InitFs ==
    fs \in {[exists |-> TRUE, attr |-> a, deletePending |-> FALSE, size |-> n] :
                a \in InitialAttributes, n \in 0..MaxFileSize}

Init ==
    /\ InitFs
    /\ handles = {}
    /\ local = [t \in Thread |-> IdleLocal]
    /\ callsLeft = [t \in Thread |-> IF t = 1 THEN MaxCalls ELSE 0]

\* Every thread calls M2DeleteFile once, on the same file.
InitConc ==
    /\ fs \in {[exists |-> TRUE, attr |-> a, deletePending |-> FALSE, size |-> 0] :
                a \in InitialAttributes}
    /\ handles = {}
    /\ local = [t \in Thread |-> IdleLocal]
    /\ callsLeft = [t \in Thread |-> 1]

(***************************************************************************)
(* The operating system.                                                   *)
(***************************************************************************)
\* The attributes SetFileInformationByHandle(FileBasicInfo) can change.
SettableAttributes ==
    FILE_ATTRIBUTE_READONLY \cup FILE_ATTRIBUTE_HIDDEN \cup
    FILE_ATTRIBUTE_SYSTEM \cup FILE_ATTRIBUTE_ARCHIVE \cup
    FILE_ATTRIBUTE_TEMPORARY \cup FILE_ATTRIBUTE_OFFLINE \cup
    FILE_ATTRIBUTE_NOT_CONTENT_INDEXED \cup FILE_ATTRIBUTE_NO_SCRUB_DATA

\* The file's attributes after FileBasicInfo.FileAttributes = req was set:
\* the settable bits are taken from req, the others stay, and
\* FILE_ATTRIBUTE_NORMAL stands only alone.
FsSetBasicInfo(cur, req) ==
    LET new == (req \cap SettableAttributes) \cup
               (cur \ (SettableAttributes \cup FILE_ATTRIBUTE_NORMAL))
    IN  IF new = {} THEN FILE_ATTRIBUTE_NORMAL ELSE new

\* CreateFileW(OPEN_EXISTING): the error it fails with, ERROR_SUCCESS if it
\* opens.  denied is the environment's refusal (access rights, sharing).
CreateFileW(denied) ==
    IF ~fs.exists THEN ERROR_FILE_NOT_FOUND
    ELSE IF fs.deletePending THEN ERROR_ACCESS_DENIED
    ELSE denied

\* SetFileInformationByHandle(FileDispositionInfo, DeleteFile = TRUE): a
\* read-only file cannot be marked; blocked is the environment's refusal
\* (a mapped image, a non-empty directory).
SetDisposition(blocked) ==
    IF FILE_ATTRIBUTE_READONLY \subseteq fs.attr THEN ERROR_ACCESS_DENIED
    ELSE blocked

\* CloseHandle(hFile) of thread t: the file system and the open handles
\* after it.  The file goes with its last handle when marked for deletion.
FsAfterClose(t) ==
    IF local[t].hFile = "handle" /\ handles = {t} /\ fs.deletePending
    THEN NoFile ELSE fs

HandlesAfterClose(t) ==
    IF local[t].hFile = "handle" THEN handles \ {t} ELSE handles

CloseEvent(t) ==
    Ev("CloseHandle", {}, {}, local[t].hFile = "handle")

(***************************************************************************)
(* M2GetFileAttributes and M2SetFileAttributes.                            *)
(***************************************************************************)
\* M2GetFileAttributes(hFile); ok: GetFileInformationByHandleEx succeeded.
M2GetFileAttributes(ok) ==
    IF ok THEN fs.attr ELSE INVALID_FILE_ATTRIBUTES

\* The bits M2SetFileAttributes lets through.
SetFileAttributesMask ==
    FILE_SHARE_READ \cup FILE_SHARE_WRITE \cup FILE_SHARE_DELETE \cup
    FILE_ATTRIBUTE_ARCHIVE \cup FILE_ATTRIBUTE_TEMPORARY \cup
    FILE_ATTRIBUTE_OFFLINE \cup FILE_ATTRIBUTE_NOT_CONTENT_INDEXED \cup
    FILE_ATTRIBUTE_NO_SCRUB_DATA

\* Mutant: FILE_ATTRIBUTE_NORMAL is inside the mask instead of added.
BasicInfoFileAttributesNormalMasked(dwFileAttributes) ==
    dwFileAttributes \cap (SetFileAttributesMask \cup FILE_ATTRIBUTE_NORMAL)

\* BasicInfo.FileAttributes as M2SetFileAttributes(hFile, dw) sets it.
BasicInfoFileAttributes(dwFileAttributes) ==
    (dwFileAttributes \cap SetFileAttributesMask) \cup FILE_ATTRIBUTE_NORMAL

\* The file after M2SetFileAttributes(hFile, dw); err: the error of
\* SetFileInformationByHandle, ERROR_SUCCESS if it succeeded.
FsAfterSetFileAttributes(dw, err) ==
    IF err = ERROR_SUCCESS
    THEN [fs EXCEPT !.attr = FsSetBasicInfo(fs.attr, BasicInfoFileAttributes(dw))]
    ELSE fs

SetAttributesEvent(dw, err) ==
    Ev("SetFileAttributes", dw, BasicInfoFileAttributes(dw), err = ERROR_SUCCESS)

\* The thread's last error after an OS call that ended with err.
LastErrorAfter(t, err) ==
    IF err = ERROR_SUCCESS THEN local[t].lastError ELSE err

\* M2SetFileAttributes's HRESULT.
M2SetFileAttributesResult(t, err) ==
    IF err = ERROR_SUCCESS THEN S_OK ELSE M2GetLastError(LastErrorAfter(t, err))

\* A new call of thread t begins: its locals are fresh, the file as it is
\* now is remembered.
Begin(t, op) ==
    [IdleLocal EXCEPT !.op = op, !.attr0 = fs.attr, !.existed0 = fs.exists,
                      !.lastError = local[t].lastError]

CanCall(t) ==
    /\ local[t].pc \in {"idle", "done"}
    /\ callsLeft[t] > 0
    /\ callsLeft' = [callsLeft EXCEPT ![t] = @ - 1]

\* M2SetFileAttributes(hFile, dw) on a handle the caller holds.
SetFileAttributesCall(t) ==
    /\ CanCall(t)
    /\ fs.exists
    /\ \E dw \in AttributeInputs, err \in {ERROR_SUCCESS, ERROR_ACCESS_DENIED} :
        /\ fs' = FsAfterSetFileAttributes(dw, err)
        /\ local' = [local EXCEPT ![t] =
               [Begin(t, "M2SetFileAttributes") EXCEPT
                   !.pc = "done",
                   !.lastError = LastErrorAfter(t, err),
                   !.hr = M2SetFileAttributesResult(t, err),
                   !.events = <<SetAttributesEvent(dw, err)>>]]
    /\ UNCHANGED handles

(***************************************************************************)
(* M2DeleteFile(lpFileName, bForceDeleteReadOnlyFile), one action per OS   *)
(* call so that calls of two threads interleave between them.              *)
(***************************************************************************)
\* Mutant: the disposition is written with DeleteFile = FALSE.
DispostionInfoDeleteFileCleared == FALSE

\* DispostionInfo.DeleteFile = TRUE
DispostionInfoDeleteFile == TRUE

\* Mutant: the attributes are unprotected whatever the flag.
UnprotectAlways(bForce) == TRUE

\* if (bForceDeleteReadOnlyFile): the attributes are saved and unprotected.
UnprotectNeeded(bForce) == bForce

\* OldAttribute & (-1 ^ FILE_ATTRIBUTE_READONLY)
UnprotectedAttribute(OldAttribute) ==
    OldAttribute \cap (DwordBits \ FILE_ATTRIBUTE_READONLY)

\* hr after the disposition call ended with err: set only when it failed.
HrAfterDisposition(hr, err) ==
    IF err = ERROR_SUCCESS THEN hr ELSE M2GetLastError(err)

\* Mutant: the restore step runs whenever the flag is set.
RestoreWheneverForced(bForce, hr) == bForce

\* if (bForceDeleteReadOnlyFile & !SUCCEEDED(hr))
RestoreNeeded(bForce, hr) == bForce /\ ~SUCCEEDED(hr)

\* Mutant: a failed attribute write becomes the call's result.
HrKeepsSetFileAttributesFailure(hr, result) ==
    IF SUCCEEDED(result) THEN hr ELSE result

\* hr after a call of M2SetFileAttributes that returned result: the call is
\* a statement of its own, its result is dropped.
HrAfterSetFileAttributes(hr, result) == hr

\* Mutant: the restore step writes the unprotected attributes again.
RestoredWithoutReadOnly(OldAttribute) ==
    OldAttribute \cap (DwordBits \ FILE_ATTRIBUTE_READONLY)

\* The attributes the restore step passes to M2SetFileAttributes.
RestoredAttribute(OldAttribute) == OldAttribute

\* hr = S_OK; hFile = CreateFileW(...); on failure hr = M2GetLastError()
\* and goto Cleanup.
DeleteFileOpen(t) ==
    /\ CanCall(t)
    /\ \E bForce \in BOOLEAN,
          denied \in {ERROR_SUCCESS, ERROR_ACCESS_DENIED, ERROR_SHARING_VIOLATION} :
        LET err == CreateFileW(denied)
            b == [Begin(t, "M2DeleteFile") EXCEPT
                     !.bForceDeleteReadOnlyFile = bForce]
        IN  IF err = ERROR_SUCCESS
            THEN /\ handles' = handles \cup {t}
                 /\ local' = [local EXCEPT ![t] =
                        [b EXCEPT !.hFile = "handle",
                                  !.events = <<Ev("CreateFileW", {}, {}, TRUE)>>,
                                  !.pc = IF UnprotectNeeded(bForce)
                                         THEN "df_save" ELSE "df_delete"]]
            ELSE /\ handles' = handles
                 /\ local' = [local EXCEPT ![t] =
                        [b EXCEPT !.hFile = "INVALID_HANDLE_VALUE",
                                  !.lastError = err,
                                  !.hr = M2GetLastError(err),
                                  !.events = <<Ev("CreateFileW", {}, {}, FALSE)>>,
                                  !.pc = "df_cleanup"]]
    /\ UNCHANGED fs

\* OldAttribute = M2GetFileAttributes(hFile);
DeleteFileSave(t) ==
    /\ local[t].pc = "df_save"
    /\ \E ok \in BOOLEAN :
        local' = [local EXCEPT
            ![t].OldAttribute = M2GetFileAttributes(ok),
            ![t].lastError = IF ok THEN @ ELSE ERROR_ACCESS_DENIED,
            ![t].events = Append(@, Ev("GetFileAttributes", {},
                                       M2GetFileAttributes(ok), ok)),
            ![t].pc = "df_unprotect"]
    /\ UNCHANGED <<fs, handles, callsLeft>>

\* M2SetFileAttributes(hFile, OldAttribute & (-1 ^ FILE_ATTRIBUTE_READONLY));
\* its result is dropped.
DeleteFileUnprotect(t) ==
    /\ local[t].pc = "df_unprotect"
    /\ \E err \in {ERROR_SUCCESS, ERROR_ACCESS_DENIED} :
        LET dw == UnprotectedAttribute(local[t].OldAttribute)
        IN  /\ fs' = FsAfterSetFileAttributes(dw, err)
            /\ local' = [local EXCEPT
                   ![t].lastError = LastErrorAfter(t, err),
                   ![t].hr = HrAfterSetFileAttributes(
                                 @, M2SetFileAttributesResult(t, err)),
                   ![t].events = Append(@, SetAttributesEvent(dw, err)),
                   ![t].pc = "df_delete"]
    /\ UNCHANGED <<handles, callsLeft>>

\* SetFileInformationByHandle(hFile, FileDispositionInfo, ...); on failure
\* hr = M2GetLastError().  Then the test of the restore step.
DeleteFileDispose(t) ==
    /\ local[t].pc = "df_delete"
    /\ \E blocked \in {ERROR_SUCCESS, ERROR_ACCESS_DENIED, ERROR_DIR_NOT_EMPTY} :
        LET err == SetDisposition(blocked)
            hr == HrAfterDisposition(local[t].hr, err)
        IN  /\ fs' = IF err = ERROR_SUCCESS
                     THEN [fs EXCEPT !.deletePending = DispostionInfoDeleteFile]
                     ELSE fs
            /\ local' = [local EXCEPT
                   ![t].lastError = LastErrorAfter(t, err),
                   ![t].hr = hr,
                   ![t].blocked = blocked,
                   ![t].dispositionError = err,
                   ![t].events = Append(@, Ev("SetDisposition", {}, {},
                                              err = ERROR_SUCCESS)),
                   ![t].pc = IF RestoreNeeded(local[t].bForceDeleteReadOnlyFile, hr)
                             THEN "df_restore" ELSE "df_cleanup"]
    /\ UNCHANGED <<handles, callsLeft>>

\* M2SetFileAttributes(hFile, OldAttribute); its result is dropped.
DeleteFileRestore(t) ==
    /\ local[t].pc = "df_restore"
    /\ \E err \in {ERROR_SUCCESS, ERROR_ACCESS_DENIED} :
        LET dw == RestoredAttribute(local[t].OldAttribute)
        IN  /\ fs' = FsAfterSetFileAttributes(dw, err)
            /\ local' = [local EXCEPT
                   ![t].lastError = LastErrorAfter(t, err),
                   ![t].hr = HrAfterSetFileAttributes(
                                 @, M2SetFileAttributesResult(t, err)),
                   ![t].events = Append(@, SetAttributesEvent(dw, err)),
                   ![t].pc = "df_cleanup"]
    /\ UNCHANGED <<handles, callsLeft>>

\* Cleanup: CloseHandle(hFile); return hr;  (also reached by the goto of a
\* failed open, with hFile = INVALID_HANDLE_VALUE)
DeleteFileCleanup(t) ==
    /\ local[t].pc = "df_cleanup"
    /\ fs' = FsAfterClose(t)
    /\ handles' = HandlesAfterClose(t)
    /\ local' = [local EXCEPT
           ![t].lastError = IF local[t].hFile = "handle" THEN @
                            ELSE ERROR_INVALID_HANDLE,
           ![t].events = Append(@, CloseEvent(t)),
           ![t].pc = "done"]
    /\ UNCHANGED callsLeft

M2DeleteFile(t) ==
    \/ DeleteFileOpen(t)
    \/ DeleteFileSave(t)
    \/ DeleteFileUnprotect(t)
    \/ DeleteFileDispose(t)
    \/ DeleteFileRestore(t)
    \/ DeleteFileCleanup(t)

(***************************************************************************)
(* M2GetFileAllocationSize(lpFileName, lpAllocationSize) and               *)
(* M2GetFileSize(lpFileName, lpFileSize): the two differ in the field of   *)
(* FILE_STANDARD_INFO they return, so one set of actions models both.      *)
(***************************************************************************)
SizeFunctions == {"M2GetFileAllocationSize", "M2GetFileSize"}

\* StandardInfo.AllocationSize: the size in whole clusters.
AllocationSize(size) == ((size + ClusterSize - 1) \div ClusterSize) * ClusterSize

\* StandardInfo.EndOfFile
EndOfFile(size) == size

\* *lpAllocationSize = 0; hr = S_OK; hFile = CreateFileW(...); on failure
\* hr = M2GetLastError() and goto Cleanup.
GetSizeOpen(t) ==
    /\ CanCall(t)
    /\ \E f \in SizeFunctions,
          denied \in {ERROR_SUCCESS, ERROR_ACCESS_DENIED, ERROR_SHARING_VIOLATION} :
        LET err == CreateFileW(denied)
        IN  IF err = ERROR_SUCCESS
            THEN /\ handles' = handles \cup {t}
                 /\ local' = [local EXCEPT ![t] =
                        [Begin(t, f) EXCEPT
                            !.hFile = "handle",
                            !.events = <<Ev("CreateFileW", {}, {}, TRUE)>>,
                            !.pc = "gs_query"]]
            ELSE /\ handles' = handles
                 /\ local' = [local EXCEPT ![t] =
                        [Begin(t, f) EXCEPT
                            !.hFile = "INVALID_HANDLE_VALUE",
                            !.lastError = err,
                            !.hr = M2GetLastError(err),
                            !.events = <<Ev("CreateFileW", {}, {}, FALSE)>>,
                            !.pc = "gs_cleanup"]]
    /\ UNCHANGED fs

\* GetFileInformationByHandleEx(hFile, FileStandardInfo, ...); on failure
\* hr = M2GetLastError() and goto Cleanup, else the size is stored.
GetSizeQuery(t) ==
    /\ local[t].pc = "gs_query"
    /\ \E err \in {ERROR_SUCCESS, ERROR_ACCESS_DENIED} :
        local' = [local EXCEPT
            ![t].lastError = LastErrorAfter(t, err),
            ![t].hr = IF err = ERROR_SUCCESS THEN @ ELSE M2GetLastError(err),
            ![t].out = IF err # ERROR_SUCCESS THEN @
                       ELSE IF local[t].op = "M2GetFileAllocationSize"
                            THEN AllocationSize(fs.size)
                            ELSE EndOfFile(fs.size),
            ![t].events = Append(@, Ev("GetFileInformationByHandleEx", {}, {},
                                       err = ERROR_SUCCESS)),
            ![t].pc = "gs_cleanup"]
    /\ UNCHANGED <<fs, handles, callsLeft>>

\* Cleanup: CloseHandle(hFile); return hr;
GetSizeCleanup(t) ==
    /\ local[t].pc = "gs_cleanup"
    /\ fs' = FsAfterClose(t)
    /\ handles' = HandlesAfterClose(t)
    /\ local' = [local EXCEPT
           ![t].lastError = IF local[t].hFile = "handle" THEN @
                            ELSE ERROR_INVALID_HANDLE,
           ![t].events = Append(@, CloseEvent(t)),
           ![t].pc = "done"]
    /\ UNCHANGED callsLeft

(***************************************************************************)
(* M2LoadResource(lpResourceInfo, hModule, lpType, lpName).                *)
(*   found   FindResourceExW returned a resource                           *)
(*   size    what SizeofResource returned (0: it failed)                   *)
(*   loaded  LoadResource returned a handle                                *)
(***************************************************************************)
\* The last error at the return, after SetLastError(ERROR_SUCCESS) and the
\* calls that were made.
LoadResourceLastError(found, size, loaded) ==
    IF ~found THEN ERROR_RESOURCE_NAME_NOT_FOUND
    ELSE IF ~loaded THEN ERROR_RESOURCE_DATA_NOT_FOUND
    ELSE IF size = 0 THEN ERROR_INVALID_HANDLE
    ELSE ERROR_SUCCESS

\* lpResourceInfo->Size at the return.
LoadResourceSize(found, size) == IF found THEN size ELSE 0

\* lpResourceInfo->Pointer at the return.
LoadResourcePointer(found, loaded) ==
    IF found /\ loaded THEN "resource" ELSE "nullptr"

M2LoadResource(t) ==
    /\ CanCall(t)
    /\ \E isNull \in BOOLEAN, found \in BOOLEAN, size \in 0..MaxResourceSize,
          loaded \in BOOLEAN :
        LET b == Begin(t, "M2LoadResource")
        IN  local' = [local EXCEPT ![t] =
                IF isNull
                THEN [b EXCEPT !.lpResourceInfo = "nullptr",
                               !.hr = E_INVALIDARG,
                               !.pc = "done"]
                ELSE [b EXCEPT
                        !.lpResourceInfo = "descriptor",
                        !.Size = LoadResourceSize(found, size),
                        !.Pointer = LoadResourcePointer(found, loaded),
                        !.lastError = LoadResourceLastError(found, size, loaded),
                        !.hr = HRESULT_FROM_WIN32(
                                   LoadResourceLastError(found, size, loaded)),
                        !.events =
                            <<Ev("FindResourceExW", {}, {}, found)>> \o
                            (IF found
                             THEN <<Ev("SizeofResource", {}, {}, size # 0),
                                    Ev("LoadResource", {}, {}, loaded)>>
                             ELSE <<>>),
                        !.pc = "done"]]
    /\ UNCHANGED <<fs, handles>>

(***************************************************************************)
(* Specifications.                                                         *)
(***************************************************************************)
Next ==
    \E t \in Thread :
        \/ DeleteFileOpen(t)
        \/ DeleteFileSave(t)
        \/ DeleteFileUnprotect(t)
        \/ DeleteFileDispose(t)
        \/ DeleteFileRestore(t)
        \/ DeleteFileCleanup(t)
        \/ SetFileAttributesCall(t)
        \/ GetSizeOpen(t)
        \/ GetSizeQuery(t)
        \/ GetSizeCleanup(t)
        \/ M2LoadResource(t)

\* One thread makes the calls, one after the other.
Spec == Init /\ [][Next]_vars

NextConc == \E t \in Thread : M2DeleteFile(t)

\* The threads call M2DeleteFile on the same file at the same time.
SpecConc == InitConc /\ [][NextConc]_vars

(***************************************************************************)
(* What a call did, read from its record.                                  *)
(***************************************************************************)
Returned(t) == local[t].pc = "done"

IsDeleteFile(t) == local[t].op = "M2DeleteFile"

Forced(t) == local[t].bForceDeleteReadOnlyFile

EventsOf(t, e) == SelectSeq(local[t].events, LAMBDA x : x.e = e)

\* The open of the call succeeded.
Opened(t) == \E i \in DOMAIN local[t].events :
    local[t].events[i].e = "CreateFileW" /\ local[t].events[i].ok

\* The attribute read and every attribute write of the call succeeded.
AttributeCallsSucceeded(t) == \A i \in DOMAIN local[t].events :
    local[t].events[i].e \in {"GetFileAttributes", "SetFileAttributes"}
        => local[t].events[i].ok

\* The disposition call was made and failed / succeeded.
DispositionFailed(t) == local[t].dispositionError > ERROR_SUCCESS
DispositionSucceeded(t) == local[t].dispositionError = ERROR_SUCCESS

\* The attribute writes made after the disposition call: the restore step.
RestoreWrites(t) ==
    {i \in DOMAIN local[t].events :
        /\ local[t].events[i].e = "SetFileAttributes"
        /\ \E k \in 1..(i - 1) : local[t].events[k].e = "SetDisposition"}

WasReadOnly(t) == FILE_ATTRIBUTE_READONLY \subseteq local[t].attr0

IsReadOnly == FILE_ATTRIBUTE_READONLY \subseteq fs.attr

\* The steps of M2DeleteFile are over: the handle is about to be released
\* or the call has returned.
AtRelease(t) == local[t].pc \in {"df_cleanup", "done"}

(***************************************************************************)
(* The claims.                                                             *)
(***************************************************************************)

\* C1: a forced M2DeleteFile on a read-only file whose disposition call
\* fails, while the attribute read and both attribute writes succeed, has
\* put the read-only attribute back on the file when the handle is released.
C1_ReadOnlyRestoredAfterFailedForcedDelete ==
    \A t \in Thread :
        (/\ IsDeleteFile(t) /\ Forced(t) /\ WasReadOnly(t)
         /\ DispositionFailed(t) /\ AttributeCallsSucceeded(t)
         /\ AtRelease(t))
        => IsReadOnly

C1_Witness ==
    \E t \in Thread :
        /\ IsDeleteFile(t) /\ Forced(t) /\ WasReadOnly(t)
        /\ DispositionFailed(t) /\ AttributeCallsSucceeded(t)
        /\ Len(EventsOf(t, "SetFileAttributes")) = 2
        /\ Returned(t) /\ IsReadOnly /\ fs.exists

\* C2: when the open succeeded, M2DeleteFile returns the outcome of the
\* disposition call (S_OK, or its error as an HRESULT), whether the
\* attribute read, the unprotect write and the restore write failed or not.
C2_ResultIsDispositionOutcome ==
    \A t \in Thread :
        (IsDeleteFile(t) /\ Opened(t) /\ Returned(t))
        => /\ local[t].dispositionError >= ERROR_SUCCESS
           /\ local[t].hr = HRESULT_FROM_WIN32(local[t].dispositionError)

\* The read, the unprotect write and the restore write all failed.
C2_Witness ==
    \E t \in Thread :
        /\ IsDeleteFile(t) /\ Opened(t) /\ Returned(t)
        /\ Len(EventsOf(t, "SetFileAttributes")) = 2
        /\ \A i \in DOMAIN local[t].events :
            local[t].events[i].e \in {"GetFileAttributes", "SetFileAttributes"}
                => ~local[t].events[i].ok
        /\ local[t].hr = HRESULT_FROM_WIN32(ERROR_DIR_NOT_EMPTY)

\* C3: without the force flag M2DeleteFile writes no attributes at any
\* point; on a read-only file it returns the access-denied error of the
\* disposition call, and the file is still there with the attributes it had.
C3_NoAttributeWriteWithoutForce ==
    \A t \in Thread :
        (IsDeleteFile(t) /\ ~Forced(t))
        => /\ EventsOf(t, "SetFileAttributes") = <<>>
           /\ (Opened(t) /\ WasReadOnly(t) /\ Returned(t))
              => /\ local[t].hr = HRESULT_FROM_WIN32(ERROR_ACCESS_DENIED)
                 /\ local[t].dispositionError = ERROR_ACCESS_DENIED
                 /\ fs.exists
                 /\ fs.attr = local[t].attr0

C3_Witness ==
    \E t \in Thread :
        /\ IsDeleteFile(t) /\ ~Forced(t)
        /\ Opened(t) /\ WasReadOnly(t) /\ Returned(t)
        /\ local[t].hr = HRESULT_FROM_WIN32(ERROR_ACCESS_DENIED)
        /\ fs.exists

\* C4: once the steps of M2DeleteFile are over, a restore write was made if
\* and only if the force flag was set and the disposition call failed; when
\* the disposition call succeeded no attribute write follows it, and the
\* file is gone once the handle is released.
C4_RestoreOnlyAfterFailedForcedDelete ==
    \A t \in Thread :
        IsDeleteFile(t)
        => /\ (AtRelease(t) /\ Opened(t))
              => ((RestoreWrites(t) # {}) <=> (Forced(t) /\ DispositionFailed(t)))
           /\ DispositionSucceeded(t) => RestoreWrites(t) = {}
           /\ (DispositionSucceeded(t) /\ Returned(t)) => ~fs.exists

\* A forced delete of a read-only file that succeeded.
C4_Witness ==
    \E t \in Thread :
        /\ IsDeleteFile(t) /\ Forced(t) /\ WasReadOnly(t)
        /\ DispositionSucceeded(t) /\ Returned(t)
        /\ RestoreWrites(t) = {}
        /\ ~fs.exists

\* C5: on a file that is not read-only and that nothing keeps from being
\* deleted, M2DeleteFile returns S_OK with the force flag and without it,
\* and the file system ends in the same state: the file removed, no handle
\* open.
C5_ForceMakesNoDifferenceOnWritableFile ==
    \A t \in Thread :
        (/\ IsDeleteFile(t) /\ Opened(t) /\ Returned(t)
         /\ ~WasReadOnly(t)
         /\ local[t].blocked = ERROR_SUCCESS)
        => /\ local[t].hr = S_OK
           /\ fs = NoFile
           /\ handles = {}

C5_Witness ==
    \E t \in Thread :
        /\ IsDeleteFile(t) /\ Opened(t) /\ Returned(t)
        /\ Forced(t)
        /\ ~WasReadOnly(t)
        /\ local[t].blocked = ERROR_SUCCESS
        /\ Len(EventsOf(t, "SetFileAttributes")) = 1
        /\ fs = NoFile

\* The flags C6 names as recognized.
RecognizedAttributes ==
    FILE_ATTRIBUTE_READONLY \cup FILE_ATTRIBUTE_HIDDEN \cup
    FILE_ATTRIBUTE_ARCHIVE \cup FILE_ATTRIBUTE_TEMPORARY \cup
    FILE_ATTRIBUTE_OFFLINE \cup FILE_ATTRIBUTE_NOT_CONTENT_INDEXED \cup
    FILE_ATTRIBUTE_NO_SCRUB_DATA

\* C6 as stated: the bit mask M2SetFileAttributes applies is the input
\* restricted to read-only, hidden, archive, temporary, offline,
\* not-content-indexed and no-scrub-data, with the normal bit added.
C6_AppliedIsRecognizedPlusNormal ==
    \A t \in Thread : \A i \in DOMAIN local[t].events :
        local[t].events[i].e = "SetFileAttributes"
        => local[t].events[i].arg =
               (local[t].events[i].in \cap RecognizedAttributes)
                   \cup FILE_ATTRIBUTE_NORMAL

\* C6 amended: the system bit is let through as well; the applied mask is
\* the input restricted to read-only, hidden, system, archive, temporary,
\* offline, not-content-indexed and no-scrub-data, with the normal bit added.
C6_AppliedIsRecognizedAndSystemPlusNormal ==
    \A t \in Thread : \A i \in DOMAIN local[t].events :
        local[t].events[i].e = "SetFileAttributes"
        => local[t].events[i].arg =
               (local[t].events[i].in \cap
                    (RecognizedAttributes \cup FILE_ATTRIBUTE_SYSTEM))
                   \cup FILE_ATTRIBUTE_NORMAL

\* An input with the system and compressed bits and without the normal bit:
\* the first is kept, the second dropped, the third added.
C6_Witness ==
    \E t \in Thread : \E i \in DOMAIN local[t].events :
        /\ local[t].op = "M2SetFileAttributes"
        /\ local[t].events[i].e = "SetFileAttributes"
        /\ local[t].events[i].in =
               FILE_ATTRIBUTE_READONLY \cup FILE_ATTRIBUTE_SYSTEM \cup
               FILE_ATTRIBUTE_DIRECTORY \cup FILE_ATTRIBUTE_COMPRESSED
        /\ local[t].events[i].ok
        /\ FILE_ATTRIBUTE_SYSTEM \subseteq local[t].events[i].arg
        /\ FILE_ATTRIBUTE_NORMAL \subseteq local[t].events[i].arg
        /\ local[t].events[i].arg \cap FILE_ATTRIBUTE_COMPRESSED = {}

\* C7: when the threads have called M2DeleteFile with the force flag on the
\* same read-only file at the same time, every disposition call failed and
\* every attribute call succeeded, the file is read-only again once all the
\* calls have returned.
C7_ConcurrentForcedDeletesKeepReadOnly ==
    (\A t \in Thread :
        /\ IsDeleteFile(t) /\ Forced(t) /\ WasReadOnly(t)
        /\ DispositionFailed(t) /\ AttributeCallsSucceeded(t)
        /\ Returned(t))
    => IsReadOnly

\* C8: when M2DeleteFile, M2GetFileAllocationSize or M2GetFileSize has
\* returned, it has called CloseHandle as many times as it opened a handle,
\* every time on a handle it had opened, and holds no handle.
C8_ReleasesPairWithOpens ==
    \A t \in Thread :
        (Returned(t) /\ local[t].op \in SizeFunctions \cup {"M2DeleteFile"})
        => /\ Len(EventsOf(t, "CloseHandle")) =
                  Len(SelectSeq(local[t].events,
                                LAMBDA x : x.e = "CreateFileW" /\ x.ok))
           /\ \A i \in DOMAIN local[t].events :
                  local[t].events[i].e = "CloseHandle" => local[t].events[i].ok
           /\ t \notin handles

\* C9: the attributes the restore step of a forced M2DeleteFile writes
\* (the normal bit, which every write adds, aside) are attributes the file
\* had before the call, also when the attribute read failed.
C9_RestoreWritesOnlyOriginalAttributes ==
    \A t \in Thread :
        (IsDeleteFile(t) /\ Forced(t))
        => \A i \in RestoreWrites(t) :
               (local[t].events[i].arg \ FILE_ATTRIBUTE_NORMAL)
                   \subseteq local[t].attr0

\* C10: M2LoadResource called with a descriptor and returning a failure
\* leaves Size = 0 and Pointer = nullptr in it, whichever step failed;
\* called with a null descriptor it returns E_INVALIDARG and looks nothing
\* up.
C10_DescriptorZeroedOnFailure ==
    \A t \in Thread :
        (local[t].op = "M2LoadResource" /\ Returned(t))
        => /\ (local[t].lpResourceInfo = "descriptor" /\ ~SUCCEEDED(local[t].hr))
              => (local[t].Size = 0 /\ local[t].Pointer = "nullptr")
           /\ local[t].lpResourceInfo = "nullptr"
              => (local[t].hr = E_INVALIDARG /\ local[t].events = <<>>)
=============================================================================
